---- MODULE Spec2Model ----
(***************************************************************************)
(* A model of omost_nodes.py: the occlusion mask builder                   *)
(* (OmostLayoutCondNode.calc_cond_mask), the bag-of-subprompts encoder     *)
(* (encode_bag_of_subprompts), the layout conditioning entry point         *)
(* (layout_cond) and the chat entry point (OmostLLMChatNode.run_llm).      *)
(*                                                                         *)
(* Python objects are modelled with identity: `heap` holds the region      *)
(* dicts and `lists` the list objects, both addressed by their index, so   *)
(* that a shallow copy, an alias and an in-place mutation are different    *)
(* things.  Tensors of 0.0/1.0 are grids of integers; strings are          *)
(* sequences of characters, so that "".join is real concatenation.         *)
(***************************************************************************)
EXTENDS Integers, Sequences, FiniteSets, TLC

\* Side of the square grid.  The source fixes it at 90 (line 274); the model
\* scales it down, every rectangle being drawn from the scaled grid.
CANVAS_SIZE == 2
\* Longest canvas_conds list (global region included).
MaxRegions == 3
\* Longest prefix list and longest suffix list given to encode_bag_of_subprompts.
MaxPrefixes == 2
MaxSuffixes == 2
\* Longest chain of run_llm calls.
MaxCalls == 3

VARIABLES
    heap,          \* the region dicts: heap[d] = [rect, prefixes, suffixes, mask]
    lists,         \* the list objects: lists[l] = the contents of list l
    entry,         \* the heap and the lists as they were when the entry point was called
    canvas_conds,  \* calc_cond_mask: the list its name canvas_conds is bound to
    canvas_state,  \* calc_cond_mask: the running claimed grid
    loop_conds,    \* calc_cond_mask: the sequence canvas_conds[1:][::-1] the loop walks
    k,             \* calc_cond_mask: how many elements of loop_conds are done
    calc_pc,       \* calc_cond_mask: "idle", "call", "loop", "returned" or the exception raised
    calc_ret,      \* calc_cond_mask: the list returned (0: none)
    prefixes,      \* encode_bag_of_subprompts: its argument prefixes
    suffixes,      \* encode_bag_of_subprompts: its argument suffixes
    conds,         \* encode_bag_of_subprompts: the list conds
    enc_i,         \* encode_bag_of_subprompts: how many suffixes are done
    enc_pc,        \* encode_bag_of_subprompts: "idle", "loop", "returned" or the exception raised
    enc_ret,       \* encode_bag_of_subprompts: the conditioning returned
    clip_calls,    \* the prompts given to CLIPTextEncode.encode so far, in order
    positive_arg,  \* layout_cond: the caller's list positive (0: None)
    positive,      \* layout_cond: the list its name positive is bound to (0: None)
    strength,      \* layout_cond: the arguments global_strength and region_strength
    lay_i,         \* layout_cond: the index i of the loop over the regions
    lay_pc,        \* layout_cond: "idle", "call", "calc", "loop", "encode", "returned", "raised"
    lay_ret,       \* layout_cond: the list returned (0: none)
    conv_arg,      \* run_llm: the caller's list conversation (0: None)
    conversation,  \* run_llm: the list its name conversation is bound to (0: None)
    text,          \* run_llm: the argument text
    generated_text, \* run_llm: the text the model generated
    sent,          \* run_llm: the list input_conversation given to the model (0: none)
    chat_ret,      \* run_llm: the conversation returned by the last call (0: none)
    chat_pc,       \* run_llm: "idle", "generate", "returned" or "raised"
    n_calls        \* the run_llm calls that have returned

calcVars == <<canvas_conds, canvas_state, loop_conds, k, calc_pc, calc_ret>>
encVars == <<prefixes, suffixes, conds, enc_i, enc_pc, enc_ret, clip_calls>>
layVars == <<positive_arg, positive, strength, lay_i, lay_pc, lay_ret>>
chatVars == <<conv_arg, conversation, text, generated_text, sent, chat_ret, chat_pc, n_calls>>
vars == <<heap, lists, entry, calcVars, encVars, layVars, chatVars>>

----------------------------------------------------------------------------
(* Tensors *)

Idx == 0..(CANVAS_SIZE - 1)
Cells == Idx \X Idx

\* torch.zeros([CANVAS_SIZE, CANVAS_SIZE]) and torch.ones([CANVAS_SIZE, CANVAS_SIZE])
torch_zeros == [p \in Cells |-> 0]
torch_ones == [p \in Cells |-> 1]

\* The absent "mask" key of a region dict.
NoMask == <<>>

\* One bound of a Python slice over a dimension of length n: a negative bound
\* counts from the end, and every bound is clamped into 0..n.
SliceBound(x, n) ==
    IF x < 0 THEN (IF x + n < 0 THEN 0 ELSE x + n)
    ELSE (IF x > n THEN n ELSE x)

\* The indices the slice a:b selects in a dimension of length n.
SliceIdxInclusive(a, b, n) ==
    {i \in 0..(n - 1) : SliceBound(a, n) <= i /\ i <= SliceBound(b, n)}

SliceIdx(a, b, n) ==
    {i \in 0..(n - 1) : SliceBound(a, n) <= i /\ i < SliceBound(b, n)}

\* mask = zeros; mask[a:b, c:d] = 1.0
RectMask(rect) ==
    [p \in Cells |->
        IF /\ p[1] \in SliceIdx(rect[1], rect[2], CANVAS_SIZE)
           /\ p[2] \in SliceIdx(rect[3], rect[4], CANVAS_SIZE)
        THEN 1 ELSE 0]

\* mask * (1 - canvas_state)
OccludeNone(mask, state) == mask

Occlude(mask, state) == [p \in Cells |-> mask[p] * (1 - state[p])]

\* canvas_state += mask
AccumulateAssign(state, mask) == mask

Accumulate(state, mask) == [p \in Cells |-> state[p] + mask[p]]

\* The mask of the global region: torch.ones, whatever its rect.
GlobalMaskFromRect(rect) == RectMask(rect)

GlobalMask(rect) == torch_ones

----------------------------------------------------------------------------
(* Lists *)

RECURSIVE Reverse(_)
Reverse(s) == IF s = <<>> THEN <<>> ELSE Append(Reverse(Tail(s)), Head(s))

\* s[1:]
DropFirst(s) == IF s = <<>> THEN <<>> ELSE Tail(s)

\* canvas_conds[1:][::-1]
LoopOrderForward(cs) == DropFirst(cs)

LoopOrderDropLast(cs) ==
    Reverse(IF Len(cs) <= 1 THEN <<>> ELSE SubSeq(cs, 2, Len(cs) - 1))

LoopOrder(cs) == Reverse(DropFirst(cs))

\* assert len(canvas_conds) > 0
AssertSkipped(cs) == TRUE

AssertNonEmpty(cs) == Len(cs) > 0

\* list.copy(): a new list object with the same elements; the result is the
\* pair of the new `lists` and the new list's identity.
CopyList(ls, l) == [lists |-> Append(ls, ls[l]), id |-> Len(ls) + 1]

----------------------------------------------------------------------------
(* Strings and the collaborators *)

\* "".join(strs): a string is a sequence of characters.
RECURSIVE Join(_)
Join(strs) == IF strs = <<>> THEN <<>> ELSE Head(strs) \o Join(Tail(strs))

\* CLIPTextEncode.encode(clip, text)[0]: a list of one [cond, extra_dict] pair;
\* cond holds one embedding per token along its sequence axis (two tokens
\* here), the embeddings and the pooled output being functions of the text.
ClipTextEncode(txt) ==
    << [cond |-> << <<txt, 1>>, <<txt, 2>> >>, pooled_output |-> <<"pooled", txt>>] >>

\* torch.cat(tensors, dim=1): the concatenation along the sequence axis.
RECURSIVE TorchCat(_)
TorchCat(tensors) ==
    IF tensors = <<>> THEN <<>> ELSE Head(tensors) \o TorchCat(Tail(tensors))

\* conds[0][1]["pooled_output"]
PooledOfLast(cs) == cs[Len(cs)].pooled_output

PooledOf(cs) == cs[1].pooled_output

\* ConditioningSetMask.append(cond, mask, set_cond_area, strength)[0]: every
\* conditioning of the list with the mask, the area flag and the strength set.
ConditioningSetMask(cs, mask, set_cond_area, st) ==
    [j \in 1..Len(cs) |->
        [cond |-> cs[j].cond, pooled_output |-> cs[j].pooled_output, mask |-> mask,
         set_area_to_bounds |-> (set_cond_area # "default"), mask_strength |-> st]]

\* prefixes of region i (0-based): the global prefix is skipped for the others.
RegionPrefixesKeep(i, pre) == pre

RegionPrefixes(i, pre) == IF i = 0 THEN pre ELSE DropFirst(pre)

\* system_prompt of lib_omost.canvas, the conversation items and the two
\* conversations run_llm builds.
system_prompt == <<"S">>
Item(role, content) == [role |-> role, content |-> content]

InputConversation(conv, user_item) ==
    <<Item("system", system_prompt)>> \o conv \o <<user_item>>

OutputWithSystem(conv, user_item, assistant_item) ==
    InputConversation(conv, user_item) \o <<assistant_item>>

OutputConversation(conv, user_item, assistant_item) ==
    conv \o <<user_item, assistant_item>>

\* x or []: a new empty list when x is None or empty, x itself otherwise; the
\* result is the pair of the new `lists` and the list's identity.
OrEmptyList(ls, l) ==
    IF l = 0 \/ ls[l] = <<>>
    THEN [lists |-> Append(ls, <<>>), id |-> Len(ls) + 1]
    ELSE [lists |-> ls, id |-> l]

\* A new list object with the given contents.
NewList(ls, contents) == [lists |-> Append(ls, contents), id |-> Len(ls) + 1]

----------------------------------------------------------------------------
(* Inputs *)

\* The intervals and rectangles of the input contract: 0 <= a <= b <= GRID.
Intervals == {iv \in (0..CANVAS_SIZE) \X (0..CANVAS_SIZE) : iv[1] <= iv[2]}
AllRects == {<<r[1], r[2], c[1], c[2]>> : r \in Intervals, c \in Intervals}
FullRect == <<0, CANVAS_SIZE, 0, CANVAS_SIZE>>

\* The rectangles the non-global regions are drawn from: every rectangle of
\* positive area, and three of zero area (a = b, c = d, and both).
ZeroAreaRects == {<<1, 1, 0, CANVAS_SIZE>>, <<0, CANVAS_SIZE, 1, 1>>, <<1, 1, 1, 1>>}
Rects == {r \in AllRects : r[1] < r[2] /\ r[3] < r[4]} \cup ZeroAreaRects

\* The rectangles the global region is drawn from.
GlobalRects == {FullRect, <<0, 0, 0, 0>>}

Region(rect, pre, suf) ==
    [rect |-> rect, prefixes |-> pre, suffixes |-> suf, mask |-> NoMask]

\* The region dicts of a canvas whose global region has rectangle g and whose
\* other regions have the rectangles rs, as the parser or json.loads makes
\* them: distinct dicts, no mask yet.
MaskCanvas(g, rs) ==
    [i \in 1..(Len(rs) + 1) |->
        Region(IF i = 1 THEN g ELSE rs[i - 1], << <<"g">> >>, << <<"s">> >>)]

----------------------------------------------------------------------------
(* calc_cond_mask *)

\* canvas_cond["mask"] = mask
StoreMask(h, d, mask) == [h EXCEPT ![d].mask = mask]

\* An exception leaving calc_cond_mask or encode_bag_of_subprompts leaves
\* layout_cond, which catches nothing, when layout_cond is the caller.
Propagate(pc) == IF pc \in {"calc", "encode"} THEN "raised" ELSE pc

\* Line 275: the assertion fails.
CalcAssertFail ==
    /\ calc_pc = "call"
    /\ ~AssertNonEmpty(lists[canvas_conds])
    /\ calc_pc' = "AssertionError"
    /\ lay_pc' = Propagate(lay_pc)
    /\ UNCHANGED <<heap, lists, entry, canvas_conds, canvas_state, loop_conds, k, calc_ret>>
    /\ UNCHANGED <<encVars, chatVars, positive_arg, positive, strength, lay_i, lay_ret>>

\* Lines 275-283: the assertion, the copy, the global mask, the claimed grid
\* and the evaluation of canvas_conds[1:][::-1].
CalcEnter ==
    /\ calc_pc = "call"
    /\ AssertNonEmpty(lists[canvas_conds])
    /\ LET c == CopyList(lists, canvas_conds)
           cs == c.lists[c.id]
       IN /\ lists' = c.lists
          /\ canvas_conds' = c.id
          /\ IF cs = <<>>
             THEN \* global_cond = canvas_conds[0] on an empty list
                  /\ calc_pc' = "IndexError"
                  /\ lay_pc' = Propagate(lay_pc)
                  /\ UNCHANGED <<heap, canvas_state, loop_conds, k>>
             ELSE /\ heap' = StoreMask(heap, cs[1], GlobalMask(heap[cs[1]].rect))
                  /\ canvas_state' = torch_zeros
                  /\ loop_conds' = LoopOrder(cs)
                  /\ k' = 0
                  /\ calc_pc' = "loop"
                  /\ UNCHANGED lay_pc
    /\ UNCHANGED <<entry, calc_ret>>
    /\ UNCHANGED <<encVars, chatVars, positive_arg, positive, strength, lay_i, lay_ret>>

\* Lines 284-290: one iteration of the loop.
CalcLoop ==
    /\ calc_pc = "loop"
    /\ k < Len(loop_conds)
    /\ LET canvas_cond == loop_conds[k + 1]
           mask == Occlude(RectMask(heap[canvas_cond].rect), canvas_state)
       IN /\ canvas_state' = Accumulate(canvas_state, mask)
          /\ heap' = StoreMask(heap, canvas_cond, mask)
    /\ k' = k + 1
    /\ UNCHANGED <<lists, entry, canvas_conds, loop_conds, calc_pc, calc_ret>>
    /\ UNCHANGED <<encVars, layVars, chatVars>>

\* Line 292: return canvas_conds; in layout_cond (line 305) the loop over the
\* returned list comes next.
CalcReturn ==
    /\ calc_pc = "loop"
    /\ k = Len(loop_conds)
    /\ calc_ret' = canvas_conds
    /\ calc_pc' = "returned"
    /\ lay_pc' = IF lay_pc = "calc" THEN "loop" ELSE lay_pc
    /\ UNCHANGED <<heap, lists, entry, canvas_conds, canvas_state, loop_conds, k>>
    /\ UNCHANGED <<encVars, chatVars, positive_arg, positive, strength, lay_i, lay_ret>>

CalcIdle ==
    /\ canvas_conds = 0
    /\ canvas_state = torch_zeros
    /\ loop_conds = <<>>
    /\ k = 0
    /\ calc_pc = "idle"
    /\ calc_ret = 0

EncIdle ==
    /\ prefixes = <<>>
    /\ suffixes = <<>>
    /\ conds = <<>>
    /\ enc_i = 0
    /\ enc_pc = "idle"
    /\ enc_ret = <<>>
    /\ clip_calls = <<>>

LayIdle ==
    /\ positive_arg = 0
    /\ positive = 0
    /\ strength = <<0, 0>>
    /\ lay_i = 0
    /\ lay_pc = "idle"
    /\ lay_ret = 0

ChatIdle ==
    /\ conv_arg = 0
    /\ conversation = 0
    /\ text = <<>>
    /\ generated_text = <<>>
    /\ sent = 0
    /\ chat_ret = 0
    /\ chat_pc = "idle"
    /\ n_calls = 0

\* calc_cond_mask called on a canvas of up to MaxRegions regions.
InitMask ==
    /\ \/ heap = <<>>
       \/ \E n \in 1..MaxRegions : \E g \in GlobalRects : \E rs \in [1..(n - 1) -> Rects] :
            heap = MaskCanvas(g, rs)
    /\ lists = << [i \in 1..Len(heap) |-> i] >>
    /\ entry = [heap |-> heap, lists |-> lists]
    /\ canvas_conds = 1
    /\ canvas_state = torch_zeros
    /\ loop_conds = <<>>
    /\ k = 0
    /\ calc_pc = "call"
    /\ calc_ret = 0
    /\ EncIdle /\ LayIdle /\ ChatIdle

NextMask == CalcAssertFail \/ CalcEnter \/ CalcLoop \/ CalcReturn

SpecMask == InitMask /\ [][NextMask]_vars

----------------------------------------------------------------------------
(* encode_bag_of_subprompts *)

\* Lines 248-255: one iteration of the loop over the suffixes.
EncodeIter ==
    /\ enc_pc = "loop"
    /\ enc_i < Len(suffixes)
    /\ LET target == suffixes[enc_i + 1]
           complete_prompt == Join(prefixes \o <<target>>)
           cond == ClipTextEncode(complete_prompt)
       IN /\ clip_calls' = Append(clip_calls, complete_prompt)
          /\ conds' = conds \o cond
    /\ enc_i' = enc_i + 1
    /\ UNCHANGED <<heap, lists, entry, prefixes, suffixes, enc_pc, enc_ret>>
    /\ UNCHANGED <<calcVars, layVars, chatVars>>

\* Lines 260-267: the concatenation and the pooled output of the first.
EncodeReturn ==
    /\ enc_pc = "loop"
    /\ enc_i = Len(suffixes)
    /\ conds # <<>>
    /\ enc_ret' = << [cond |-> TorchCat([j \in 1..Len(conds) |-> conds[j].cond]),
                      pooled_output |-> PooledOf(conds)] >>
    /\ enc_pc' = "returned"
    /\ UNCHANGED <<heap, lists, entry, prefixes, suffixes, conds, enc_i, clip_calls>>
    /\ UNCHANGED <<calcVars, layVars, chatVars>>

\* Line 263 with no suffix: torch.cat of an empty list raises.
EncodeRaise ==
    /\ enc_pc = "loop"
    /\ enc_i = Len(suffixes)
    /\ conds = <<>>
    /\ enc_pc' = "RuntimeError"
    /\ lay_pc' = Propagate(lay_pc)
    /\ UNCHANGED <<heap, lists, entry, prefixes, suffixes, conds, enc_i, enc_ret, clip_calls>>
    /\ UNCHANGED <<calcVars, chatVars, positive_arg, positive, strength, lay_i, lay_ret>>

\* The strings the prefixes and the suffixes are drawn from.
PrefixPool == {<<>>, <<"a">>, <<"b", "c">>}
SuffixPool == {<<"x">>, <<"y", "z">>}

SeqsUpTo(S, n) == UNION {[1..m -> S] : m \in 0..n}

\* encode_bag_of_subprompts called on up to MaxPrefixes prefixes and up to
\* MaxSuffixes suffixes.
InitEncode ==
    /\ heap = <<>>
    /\ lists = <<>>
    /\ entry = [heap |-> heap, lists |-> lists]
    /\ prefixes \in SeqsUpTo(PrefixPool, MaxPrefixes)
    /\ suffixes \in SeqsUpTo(SuffixPool, MaxSuffixes)
    /\ conds = <<>>
    /\ enc_i = 0
    /\ enc_pc = "loop"
    /\ enc_ret = <<>>
    /\ clip_calls = <<>>
    /\ CalcIdle /\ LayIdle /\ ChatIdle

NextEncode == EncodeIter \/ EncodeReturn \/ EncodeRaise

SpecEncode == InitEncode /\ [][NextEncode]_vars

----------------------------------------------------------------------------
(* layout_cond *)

\* Lines 303-305: positive or [], its copy, and the call of calc_cond_mask.
LayoutBegin ==
    /\ lay_pc = "call"
    /\ LET p1 == OrEmptyList(lists, positive_arg)
           p2 == CopyList(p1.lists, p1.id)
       IN /\ lists' = p2.lists
          /\ positive' = p2.id
    /\ canvas_conds' = 1
    /\ calc_pc' = "call"
    /\ lay_pc' = "calc"
    /\ UNCHANGED <<heap, entry, canvas_state, loop_conds, k, calc_ret>>
    /\ UNCHANGED <<encVars, chatVars, positive_arg, strength, lay_i, lay_ret>>

\* Lines 307-317: the next region, its prefixes, and the call of
\* encode_bag_of_subprompts.
LayoutIterBegin ==
    /\ lay_pc = "loop"
    /\ lay_i < Len(lists[calc_ret])
    /\ LET canvas_cond == heap[lists[calc_ret][lay_i + 1]]
       IN /\ prefixes' = RegionPrefixes(lay_i, canvas_cond.prefixes)
          /\ suffixes' = canvas_cond.suffixes
    /\ conds' = <<>>
    /\ enc_i' = 0
    /\ enc_pc' = "loop"
    /\ lay_pc' = "encode"
    /\ UNCHANGED <<heap, lists, entry, enc_ret, clip_calls>>
    /\ UNCHANGED <<calcVars, chatVars, positive_arg, positive, strength, lay_i, lay_ret>>

\* Lines 319-326: the mask and the strength set on the encoding, which is
\* appended to positive.
LayoutIterEnd ==
    /\ lay_pc = "encode"
    /\ enc_pc = "returned"
    /\ LET canvas_cond == heap[lists[calc_ret][lay_i + 1]]
           cond == ConditioningSetMask(enc_ret, canvas_cond.mask, "default",
                                       IF lay_i = 0 THEN strength[1] ELSE strength[2])
       IN lists' = [lists EXCEPT ![positive] = @ \o cond]
    /\ lay_i' = lay_i + 1
    /\ lay_pc' = "loop"
    /\ enc_pc' = "idle"
    /\ UNCHANGED <<heap, entry, prefixes, suffixes, conds, enc_i, enc_ret, clip_calls>>
    /\ UNCHANGED <<calcVars, chatVars, positive_arg, positive, strength, lay_ret>>

\* Line 328: return (positive,)
LayoutReturn ==
    /\ lay_pc = "loop"
    /\ lay_i = Len(lists[calc_ret])
    /\ lay_ret' = positive
    /\ lay_pc' = "returned"
    /\ UNCHANGED <<heap, lists, entry>>
    /\ UNCHANGED <<calcVars, encVars, chatVars, positive_arg, positive, strength, lay_i>>

\* The rectangles, the texts and the strengths layout_cond is given: two
\* rectangles that overlap; prefixes with and without a region prefix, two
\* suffixes, one, or none; strengths in hundredths.
LayoutRects == {FullRect, <<0, 1, 0, 1>>}
LayoutTexts ==
    {<< << <<"g">>, <<"p">> >>, << <<"x">>, <<"y">> >> >>,
     << << <<"g">> >>, << <<"x">> >> >>,
     << << <<"g">>, <<"p">> >>, <<>> >>}
Strengths == {20, 80}
\* The lists the caller may pass as positive: None is positive_arg = 0.
PositiveLists == {<<>>, <<"c0">>}

LayoutCanvas(rs, ts) ==
    [i \in 1..Len(ts) |-> Region(IF i = 1 THEN FullRect ELSE rs[i - 1], ts[i][1], ts[i][2])]

\* layout_cond called on a canvas of up to MaxRegions regions.
InitLayout ==
    /\ \E n \in 0..MaxRegions : \E ts \in [1..n -> LayoutTexts] :
        \E rs \in [1..(IF n = 0 THEN 0 ELSE n - 1) -> LayoutRects] :
            heap = LayoutCanvas(rs, ts)
    /\ \/ positive_arg = 0 /\ lists = << [i \in 1..Len(heap) |-> i] >>
       \/ \E P \in PositiveLists :
            positive_arg = 2 /\ lists = << [i \in 1..Len(heap) |-> i], P >>
    /\ entry = [heap |-> heap, lists |-> lists]
    /\ strength \in Strengths \X Strengths
    /\ positive = positive_arg
    /\ lay_i = 0
    /\ lay_pc = "call"
    /\ lay_ret = 0
    /\ CalcIdle /\ EncIdle /\ ChatIdle

NextLayout ==
    \/ LayoutBegin
    \/ CalcAssertFail \/ CalcEnter \/ CalcLoop \/ CalcReturn
    \/ LayoutIterBegin
    \/ EncodeIter \/ EncodeReturn \/ EncodeRaise
    \/ LayoutIterEnd
    \/ LayoutReturn

SpecLayout == InitLayout /\ [][NextLayout]_vars

----------------------------------------------------------------------------
(* run_llm *)

\* The texts the user enters and the texts the model generates.
Texts == {<<"u">>, <<"v">>}
Responses == {<<"r">>, <<"q">>}

\* Lines 146-172: conversation or [], the two new items, input_conversation,
\* and the call of the model on it.  A first call gets the caller's
\* conversation, a later one the conversation the previous call returned.
ChatBegin ==
    /\ chat_pc \in {"idle", "returned"}
    /\ n_calls < MaxCalls
    /\ \E t \in Texts :
        LET arg == IF chat_pc = "returned" THEN chat_ret ELSE conv_arg
            c == OrEmptyList(lists, arg)
            inp == NewList(c.lists, InputConversation(c.lists[c.id], Item("user", t)))
        IN /\ conv_arg' = arg
           /\ entry' = [heap |-> heap, lists |-> lists]
           /\ conversation' = c.id
           /\ text' = t
           /\ lists' = inp.lists
           /\ sent' = inp.id
    /\ chat_pc' = "generate"
    /\ UNCHANGED <<heap, generated_text, chat_ret, n_calls>>
    /\ UNCHANGED <<calcVars, encVars, layVars>>

\* Lines 173-189: the generated text, output_conversation, and the return.
ChatReturn ==
    /\ chat_pc = "generate"
    /\ \E g \in Responses :
        LET out == NewList(lists, OutputConversation(lists[conversation],
                                Item("user", text), Item("assistant", g)))
        IN /\ generated_text' = g
           /\ lists' = out.lists
           /\ chat_ret' = out.id
    /\ chat_pc' = "returned"
    /\ n_calls' = n_calls + 1
    /\ UNCHANGED <<heap, entry, conv_arg, conversation, text, sent>>
    /\ UNCHANGED <<calcVars, encVars, layVars>>

\* Line 188: the canvas parser raises on the generated text, and nothing is
\* returned.
ChatRaise ==
    /\ chat_pc = "generate"
    /\ \E g \in Responses : generated_text' = g
    /\ chat_pc' = "raised"
    /\ UNCHANGED <<heap, lists, entry, conv_arg, conversation, text, sent, chat_ret, n_calls>>
    /\ UNCHANGED <<calcVars, encVars, layVars>>

\* run_llm called first with no conversation or with an empty one.
InitChat ==
    /\ heap = <<>>
    /\ \/ conv_arg = 0 /\ lists = <<>>
       \/ conv_arg = 1 /\ lists = << <<>> >>
    /\ entry = [heap |-> heap, lists |-> lists]
    /\ conversation = 0
    /\ text = <<>>
    /\ generated_text = <<>>
    /\ sent = 0
    /\ chat_ret = 0
    /\ chat_pc = "idle"
    /\ n_calls = 0
    /\ CalcIdle /\ EncIdle /\ LayIdle

NextChat == ChatBegin \/ ChatReturn \/ ChatRaise

SpecChat == InitChat /\ [][NextChat]_vars

----------------------------------------------------------------------------
(* The claims about calc_cond_mask, under SpecMask *)

\* Cell p = <<row, column>> lies inside the half-open rectangle [a,b) x [c,d).
InRect(p, rect) ==
    /\ rect[1] <= p[1] /\ p[1] < rect[2]
    /\ rect[3] <= p[2] /\ p[2] < rect[4]

\* The caller's list of regions, its length, and the rectangle and the mask of
\* its i-th region (1-based: region 1 is the global region, index 0 in the code).
Regions == entry.lists[1]
NRegions == Len(Regions)
RectOf(i) == entry.heap[Regions[i]].rect
MaskOf(i) == heap[Regions[i]].mask
NonGlobal == 2..NRegions

\* C1: when calc_cond_mask has returned, the mask of every non-global region
\* is 1 at a cell exactly when the cell lies inside the region's rectangle and
\* inside the rectangle of no region later in the list, and 0 otherwise.
C1_LastInListWins ==
    calc_pc = "returned" =>
        \A i \in NonGlobal : \A p \in Cells :
            MaskOf(i)[p] =
                IF InRect(p, RectOf(i)) /\ \A j \in (i + 1)..NRegions : ~InRect(p, RectOf(j))
                THEN 1 ELSE 0

\* The example of the specification, scaled to the grid: [global, the full
\* rectangle, the block 1..2 by 1..2]; the block keeps its whole rectangle and
\* the full rectangle loses the block.
C1_Witness ==
    /\ calc_pc = "returned"
    /\ NRegions = 3
    /\ RectOf(2) = FullRect
    /\ RectOf(3) = <<1, 2, 1, 2>>
    /\ MaskOf(3)[<<1, 1>>] = 1
    /\ MaskOf(2)[<<1, 1>>] = 0
    /\ MaskOf(2)[<<0, 0>>] = 1

\* C2: when calc_cond_mask has returned, the mask of the global region is the
\* all-ones grid, whatever its rectangle and whatever the other regions.
C2_GlobalMaskAllOnes ==
    calc_pc = "returned" =>
        /\ MaskOf(1) = torch_ones
        /\ heap[lists[calc_ret][1]].mask = torch_ones

C2_Witness ==
    /\ calc_pc = "returned"
    /\ NRegions = 3
    /\ RectOf(1) = <<0, 0, 0, 0>>
    /\ RectOf(2) = FullRect
    /\ MaskOf(1) = torch_ones

\* C3: when calc_cond_mask has returned, no cell is 1 in the masks of two
\* distinct non-global regions.
C3_MasksDisjoint ==
    calc_pc = "returned" =>
        \A i \in NonGlobal : \A j \in NonGlobal :
            i # j => \A p \in Cells : ~(MaskOf(i)[p] = 1 /\ MaskOf(j)[p] = 1)

\* Two non-global regions whose rectangles share a cell.
C3_Witness ==
    /\ calc_pc = "returned"
    /\ \E i \in NonGlobal : \E j \in NonGlobal :
        /\ i < j
        /\ \E p \in Cells : InRect(p, RectOf(i)) /\ InRect(p, RectOf(j))
        /\ \E p \in Cells : MaskOf(i)[p] = 1

C7_SameRegionsMasksPopulated ==
    /\ lists[1] = Regions
    /\ Len(heap) = Len(entry.heap)
    /\ calc_pc = "returned" =>
        /\ lists[calc_ret] = Regions
        /\ \A d \in 1..Len(heap) :
            /\ heap[d].rect = entry.heap[d].rect
            /\ heap[d].prefixes = entry.heap[d].prefixes
            /\ heap[d].suffixes = entry.heap[d].suffixes
            /\ heap[d].mask \in [Cells -> {0, 1}]

C7_Witness ==
    /\ calc_pc = "returned"
    /\ NRegions = MaxRegions
    /\ calc_ret # 1
    /\ \A i \in 1..NRegions : entry.heap[Regions[i]].mask = NoMask /\ MaskOf(i) # NoMask

----------------------------------------------------------------------------
(* The claims about layout_cond, under SpecLayout *)

\* The caller's list positive as it was at the call (None counts as empty).
PositiveAtCall == IF positive_arg = 0 THEN <<>> ELSE entry.lists[positive_arg]

\* C5: on an empty list of regions calc_cond_mask ends in the assertion
\* failure and nothing else, and layout_cond ends raised with it: no region
\* dict is written, the text encoder is never called, nothing is appended to a
\* conditioning list, and nothing is returned.
C5_EmptyCanvasAborts ==
    NRegions = 0 =>
        /\ calc_pc \in {"idle", "call", "AssertionError"}
        /\ lay_pc \in {"call", "calc", "raised"}
        /\ calc_pc = "AssertionError" <=> lay_pc = "raised"
        /\ heap = entry.heap
        /\ clip_calls = <<>>
        /\ enc_pc = "idle"
        /\ lay_ret = 0 /\ calc_ret = 0
        /\ positive # 0 /\ lay_pc # "call" => lists[positive] = PositiveAtCall
        /\ positive_arg # 0 => lists[positive_arg] = PositiveAtCall

\* layout_cond raised on an empty canvas, the caller having passed conditionings.
C5_Witness ==
    /\ NRegions = 0
    /\ lay_pc = "raised"
    /\ calc_pc = "AssertionError"
    /\ positive_arg # 0
    /\ PositiveAtCall # <<>>

\* The prompts of region i (1-based), in suffix order: its prefixes, the first
\* dropped unless the region is the global one, followed by one suffix.
PromptsOf(i) ==
    LET r == entry.heap[Regions[i]]
        pre == IF i = 1 THEN r.prefixes ELSE DropFirst(r.prefixes)
    IN [j \in 1..Len(r.suffixes) |-> Join(pre) \o r.suffixes[j]]

\* The embedding of the prompts ps in order: two tokens for each.
EmbeddingOf(ps) == [t \in 1..(2 * Len(ps)) |-> <<ps[(t + 1) \div 2], 2 - (t % 2)>>]

\* The occlusion mask of region i (1-based), from the rectangles alone.
OcclusionMask(i) ==
    [p \in Cells |->
        IF i = 1 THEN 1
        ELSE IF InRect(p, RectOf(i)) /\ \A j \in (i + 1)..NRegions : ~InRect(p, RectOf(j))
             THEN 1 ELSE 0]

\* C9: the caller's list positive is never changed, and when layout_cond has
\* returned, the list returned is another list: the caller's conditionings
\* followed by one record for each region in order, made of the encoding of the
\* region's prompts (full prefixes for region 0, the first prefix dropped for
\* the others), the region's mask (all ones for region 0, the occlusion mask
\* for the others) and global_strength for region 0, region_strength for the
\* others.
C9_LayoutCondResult ==
    /\ positive_arg # 0 => lists[positive_arg] = PositiveAtCall
    /\ lay_pc = "returned" =>
        /\ NRegions >= 1
        /\ lay_ret # positive_arg
        /\ lists[lay_ret] =
            PositiveAtCall \o
            [i \in 1..NRegions |->
                [cond |-> EmbeddingOf(PromptsOf(i)),
                 pooled_output |-> <<"pooled", PromptsOf(i)[1]>>,
                 mask |-> OcclusionMask(i),
                 set_area_to_bounds |-> FALSE,
                 mask_strength |-> IF i = 1 THEN strength[1] ELSE strength[2]]]

\* Three regions with two prefixes each, the last two overlapping, distinct
\* strengths, and a conditioning passed in.
C9_Witness ==
    /\ lay_pc = "returned"
    /\ NRegions = 3
    /\ PositiveAtCall = <<"c0">>
    /\ strength[1] # strength[2]
    /\ \A i \in 1..3 : Len(entry.heap[Regions[i]].prefixes) = 2
    /\ RectOf(2) = FullRect /\ RectOf(3) = <<0, 1, 0, 1>>
    /\ Len(lists[lay_ret]) = 4

----------------------------------------------------------------------------
(* The claim about encode_bag_of_subprompts, under SpecEncode *)

\* C6: the text encoder is called once for each suffix, in suffix order, on the
\* concatenation of the prefixes followed by the suffix; with at least one
\* suffix nothing is raised, and the value returned is one record whose
\* embedding is the concatenation of the encodings in suffix order and whose
\* pooled output is that of the first suffix's prompt.
C6_EncodeBagOfSubprompts ==
    LET prompts == [j \in 1..Len(suffixes) |-> Join(prefixes) \o suffixes[j]]
    IN /\ clip_calls = SubSeq(prompts, 1, enc_i)
       /\ Len(suffixes) >= 1 => enc_pc \in {"loop", "returned"}
       /\ enc_pc = "returned" =>
            /\ clip_calls = prompts
            /\ Len(enc_ret) = 1
            /\ enc_ret[1].cond = EmbeddingOf(prompts)
            /\ enc_ret[1].pooled_output = <<"pooled", prompts[1]>>

\* Two prefixes and two different suffixes.
C6_Witness ==
    /\ enc_pc = "returned"
    /\ Len(prefixes) = 2 /\ prefixes[1] # <<>> /\ prefixes[2] # <<>>
    /\ Len(suffixes) = 2 /\ suffixes[1] # suffixes[2]
    /\ Len(clip_calls) = 2

----------------------------------------------------------------------------
(* The claim about run_llm, under SpecChat *)

\* The caller's conversation as it was at the call (None counts as empty).
ConversationAtCall == IF conv_arg = 0 THEN <<>> ELSE entry.lists[conv_arg]

Roles(conv) == [j \in 1..Len(conv) |-> conv[j].role]

\* C10: in a chain of run_llm calls from no conversation or an empty one, the
\* conversation given to the model is the system item, the conversation
\* passed in, and the new user item, with one system item in all; the
\* conversation returned by the n-th call is another list, the conversation
\* passed in followed by the user item and by the assistant item of the
\* generated text, of 2n items, user and assistant in turn; and the list
\* passed in is never changed.
C10_ChatChain ==
    /\ conv_arg # 0 => lists[conv_arg] = ConversationAtCall
    /\ chat_pc \in {"generate", "returned", "raised"} =>
        /\ lists[sent] =
            <<Item("system", system_prompt)>> \o ConversationAtCall \o <<Item("user", text)>>
        /\ Cardinality({j \in 1..Len(lists[sent]) : lists[sent][j].role = "system"}) = 1
        /\ Len(ConversationAtCall) = 2 * n_calls - (IF chat_pc = "returned" THEN 2 ELSE 0)
    /\ chat_pc = "returned" =>
        /\ chat_ret # conv_arg
        /\ lists[chat_ret] =
            ConversationAtCall \o <<Item("user", text), Item("assistant", generated_text)>>
        /\ Len(lists[chat_ret]) = 2 * n_calls
        /\ Roles(lists[chat_ret]) =
            [j \in 1..(2 * n_calls) |-> IF j % 2 = 1 THEN "user" ELSE "assistant"]

\* The second call of a chain has returned.
C10_Witness ==
    /\ chat_pc = "returned"
    /\ n_calls = 2
    /\ Len(ConversationAtCall) = 2
    /\ Len(lists[sent]) = 4
    /\ Len(lists[chat_ret]) = 4

====
